---------------------------- MODULE Spec2Model ----------------------------
(* WARP COMMAND log analyzer (src/warp_command.py): WarpLogAnalyzer.         *)
(* A line of text is a sequence of one-character strings, so that the        *)
(* regular expressions of __init__ are matched character by character.       *)
EXTENDS Integers, Sequences, FiniteSets, TLC

VARIABLES pc, today, file, line_num, commands, result, line, command_info, command_freq

vars == <<pc, today, file, line_num, commands, result, line, command_info, command_freq>>

(***************************************************************************)
(* Character classes of Python's re module.                                *)
(***************************************************************************)
Digits == <<"0", "1", "2", "3", "4", "5", "6", "7", "8", "9">>

\* \d
IsDigit(c) == \E k \in 1..10 : Digits[k] = c

\* \s
IsSpace(c) == c \in {" ", "\t", "\n", "\r"}

\* \w : letters, digits and the underscore
IsWord(c) ==
    \/ IsDigit(c)
    \/ c \in {"a", "b", "c", "d", "e", "f", "g", "h", "i", "j", "k", "l", "m",
              "n", "o", "p", "q", "r", "s", "t", "u", "v", "w", "x", "y", "z",
              "T", "_"}

\* the literal lit occurs in s at position i
LitAt(s, i, lit) ==
    /\ i >= 1
    /\ i + Len(lit) - 1 <= Len(s)
    /\ \A k \in 1..Len(lit) : s[i + k - 1] = lit[k]

\* \b between s[p-1] and s[p] (p in 1..Len(s)+1); outside the string counts
\* as a non-word character
WordBoundary(s, p) ==
    LET before == p - 1 >= 1 /\ p - 1 <= Len(s) /\ IsWord(s[p - 1])
        after  == p >= 1 /\ p <= Len(s) /\ IsWord(s[p])
    IN  before # after

\* \s+ from position i up to (not including) position j
SpacesBetween(s, i, j) ==
    /\ j > i
    /\ j - 1 <= Len(s)
    /\ \A k \in i..(j - 1) : IsSpace(s[k])

\* kw\s+(alt1|alt2|...) found anywhere in s
SearchKeywordArg(s, kw, alts) ==
    \E i \in 1..Len(s) :
        /\ LitAt(s, i, kw)
        /\ \E j \in (i + Len(kw) + 1)..Len(s) :
              /\ SpacesBetween(s, i + Len(kw), j)
              /\ \E a \in alts : LitAt(s, j, a)

\* kw\s+ found anywhere in s (no word boundary)
SearchKeywordSpace(s, kw) ==
    \E i \in 1..Len(s) :
        /\ LitAt(s, i, kw)
        /\ SpacesBetween(s, i + Len(kw), i + Len(kw) + 1)

\* \bkw\s+ found anywhere in s
SearchWordStartSpace(s, kw) ==
    \E i \in 1..Len(s) :
        /\ WordBoundary(s, i)
        /\ LitAt(s, i, kw)
        /\ SpacesBetween(s, i + Len(kw), i + Len(kw) + 1)

\* \bkw\b found anywhere in s
SearchWholeWord(s, kw) ==
    \E i \in 1..Len(s) :
        /\ WordBoundary(s, i)
        /\ LitAt(s, i, kw)
        /\ WordBoundary(s, i + Len(kw))

(***************************************************************************)
(* self.command_patterns, in the insertion order of the dict.              *)
(***************************************************************************)
CargoSubcommands ==
    { <<"b", "u", "i", "l", "d">>, <<"r", "u", "n">>, <<"t", "e", "s", "t">>,
      <<"c", "h", "e", "c", "k">>, <<"c", "l", "i", "p", "p", "y">> }

GitSubcommands ==
    { <<"a", "d", "d">>, <<"c", "o", "m", "m", "i", "t">>,
      <<"p", "u", "s", "h">>, <<"p", "u", "l", "l">>,
      <<"s", "t", "a", "t", "u", "s">>, <<"d", "i", "f", "f">>,
      <<"l", "o", "g">> }

\* r'cargo\s+(build|run|test|check|clippy)'
pattern_cargo(s) == SearchKeywordArg(s, <<"c", "a", "r", "g", "o">>, CargoSubcommands)

\* r'git\s+(add|commit|push|pull|status|diff|log)'
pattern_git(s) == SearchKeywordArg(s, <<"g", "i", "t">>, GitSubcommands)

\* r'(vim|nvim)\s+'
pattern_vim(s) ==
    \/ SearchKeywordSpace(s, <<"v", "i", "m">>)
    \/ SearchKeywordSpace(s, <<"n", "v", "i", "m">>)

\* r'code\s+'
pattern_code(s) == SearchKeywordSpace(s, <<"c", "o", "d", "e">>)

\* a plausible slip: the word boundaries of the ls pattern left out
pattern_ls_unbounded(s) == \E i \in 1..Len(s) : LitAt(s, i, <<"l", "s">>)

\* r'\bls\b'
pattern_ls(s) == SearchWholeWord(s, <<"l", "s">>)

\* r'\bcd\s+'
pattern_cd(s) == SearchWordStartSpace(s, <<"c", "d">>)

\* r'\bgrep\s+'
pattern_grep(s) == SearchWordStartSpace(s, <<"g", "r", "e", "p">>)

\* r'\bfind\s+'
pattern_find(s) == SearchWordStartSpace(s, <<"f", "i", "n", "d">>)

\* r'\bcat\s+'
pattern_cat(s) == SearchWordStartSpace(s, <<"c", "a", "t">>)

\* a plausible slip: the navigation pattern declared ahead of the build one
command_patterns_cd_first ==
    <<"cd", "cargo", "git", "vim", "code", "ls", "grep", "find", "cat">>

\* the keys of self.command_patterns in their declared order
command_patterns ==
    <<"cargo", "git", "vim", "code", "ls", "cd", "grep", "find", "cat">>

\* pattern.search(line) for the pattern stored under cmd_name
PatternSearch(cmd_name, s) ==
    CASE cmd_name = "cargo" -> pattern_cargo(s)
      [] cmd_name = "git"   -> pattern_git(s)
      [] cmd_name = "vim"   -> pattern_vim(s)
      [] cmd_name = "code"  -> pattern_code(s)
      [] cmd_name = "ls"    -> pattern_ls(s)
      [] cmd_name = "cd"    -> pattern_cd(s)
      [] cmd_name = "grep"  -> pattern_grep(s)
      [] cmd_name = "find"  -> pattern_find(s)
      [] cmd_name = "cat"   -> pattern_cat(s)

(***************************************************************************)
(* str.strip()                                                             *)
(***************************************************************************)
RECURSIVE LStrip(_)
LStrip(s) == IF s # <<>> /\ IsSpace(Head(s)) THEN LStrip(Tail(s)) ELSE s

RECURSIVE RStrip(_)
RStrip(s) ==
    IF s # <<>> /\ IsSpace(s[Len(s)]) THEN RStrip(SubSeq(s, 1, Len(s) - 1)) ELSE s

Strip(s) == RStrip(LStrip(s))

(***************************************************************************)
(* Timestamps: a datetime is a record of its calendar fields (all aware,   *)
(* UTC). NoTimestamp stands where no datetime is present.                  *)
(***************************************************************************)
NoTimestamp == [year |-> 0, month |-> 0, day |-> 0, hour |-> 0, minute |-> 0, second |-> 0]

\* the None returned by extract_command_info
None == [timestamp |-> NoTimestamp, command |-> "None", line |-> <<>>]

\* extract_command_info: the loop over command_patterns.items() from index i
RECURSIVE ExtractFrom(_, _, _)
ExtractFrom(i, s, timestamp) ==
    IF i > Len(command_patterns) THEN None
    ELSE IF PatternSearch(command_patterns[i], s)
         THEN [timestamp |-> timestamp, command |-> command_patterns[i], line |-> Strip(s)]
         ELSE ExtractFrom(i + 1, s, timestamp)

extract_command_info(s, timestamp) == ExtractFrom(1, s, timestamp)


(***************************************************************************)
(* self.timestamp_pattern and datetime.fromisoformat                       *)
(***************************************************************************)
\* r'(\d{4}-\d{2}-\d{2}T\d{2}:\d{2}:\d{2})' matches s at position i
TimestampShapeAt(s, i) ==
    /\ i >= 1
    /\ i + 18 <= Len(s)
    /\ \A k \in {0, 1, 2, 3, 5, 6, 8, 9, 11, 12, 14, 15, 17, 18} : IsDigit(s[i + k])
    /\ s[i + 4] = "-" /\ s[i + 7] = "-"
    /\ s[i + 10] = "T"
    /\ s[i + 13] = ":" /\ s[i + 16] = ":"

\* a plausible slip: the last timestamp-shaped substring taken, not the first
timestamp_search_last(s) ==
    IF \E i \in 1..Len(s) : TimestampShapeAt(s, i)
    THEN CHOOSE i \in 1..Len(s) :
            /\ TimestampShapeAt(s, i)
            /\ \A j \in (i + 1)..Len(s) : ~TimestampShapeAt(s, j)
    ELSE 0

\* timestamp_pattern.search(line): start of the leftmost match, 0 when none
timestamp_search(s) ==
    IF \E i \in 1..Len(s) : TimestampShapeAt(s, i)
    THEN CHOOSE i \in 1..Len(s) :
            /\ TimestampShapeAt(s, i)
            /\ \A j \in 1..(i - 1) : ~TimestampShapeAt(s, j)
    ELSE 0

DigitValue(c) == (CHOOSE k \in 1..10 : Digits[k] = c) - 1

\* int() of the n digits of s from position i
RECURSIVE ParseInt(_, _, _)
ParseInt(s, i, n) ==
    IF n = 0 THEN 0
    ELSE ParseInt(s, i, n - 1) * 10 + DigitValue(s[i + n - 1])

IsLeap(y) == (y % 4 = 0 /\ y % 100 # 0) \/ y % 400 = 0

DaysInMonth(y, m) ==
    IF m = 2 THEN (IF IsLeap(y) THEN 29 ELSE 28)
    ELSE IF m \in {4, 6, 9, 11} THEN 30 ELSE 31

\* the fields of the timestamp-shaped substring of s starting at i
TimestampFields(s, i) ==
    [year   |-> ParseInt(s, i, 4),      month  |-> ParseInt(s, i + 5, 2),
     day    |-> ParseInt(s, i + 8, 2),  hour   |-> ParseInt(s, i + 11, 2),
     minute |-> ParseInt(s, i + 14, 2), second |-> ParseInt(s, i + 17, 2)]

\* datetime.fromisoformat(timestamp_str + "+00:00") returns (does not raise
\* ValueError) exactly for the fields of a real calendar date and time
FromIsoFormatOk(t) ==
    /\ t.year >= 1
    /\ t.month >= 1 /\ t.month <= 12
    /\ t.day >= 1 /\ t.day <= DaysInMonth(t.year, t.month)
    /\ t.hour <= 23 /\ t.minute <= 59 /\ t.second <= 59

\* datetime.date()
DateOf(t) == [year |-> t.year, month |-> t.month, day |-> t.day]

\* the order of aware datetimes of one zone: by calendar day, then by the
\* second of the day
DayKey(t) == (t.year * 12 + t.month) * 31 + t.day

SecondKey(t) == (t.hour * 60 + t.minute) * 60 + t.second

TimestampLess(a, b) ==
    \/ DayKey(a) < DayKey(b)
    \/ DayKey(a) = DayKey(b) /\ SecondKey(a) < SecondKey(b)

(***************************************************************************)
(* analyze_patterns                                                        *)
(***************************************************************************)
CommandNames == {command_patterns[k] : k \in 1..Len(command_patterns)}

\* Counter(cmd['command'] for cmd in commands); a Counter reads 0 for a key
\* it does not hold
Counter(cmds) ==
    [n \in CommandNames |-> Cardinality({k \in 1..Len(cmds) : cmds[k].command = n})]

\* a plausible slip: >= in place of >, so that the last of equal keys wins
RECURSIVE MinMaxLastFrom(_, _, _, _)
MinMaxLastFrom(cmds, k, best, which) ==
    IF k > Len(cmds) THEN best
    ELSE LET better == IF which = "min"
                       THEN ~TimestampLess(best.timestamp, cmds[k].timestamp)
                       ELSE ~TimestampLess(cmds[k].timestamp, best.timestamp)
         IN  MinMaxLastFrom(cmds, k + 1, IF better THEN cmds[k] ELSE best, which)

\* the loop of the builtins min and max with key=lambda x: x['timestamp']:
\* an item replaces the best so far only when its key is strictly smaller
\* (min) or strictly greater (max)
RECURSIVE MinMaxFrom(_, _, _, _)
MinMaxFrom(cmds, k, best, which) ==
    IF k > Len(cmds) THEN best
    ELSE LET better == IF which = "min"
                       THEN TimestampLess(cmds[k].timestamp, best.timestamp)
                       ELSE TimestampLess(best.timestamp, cmds[k].timestamp)
         IN  MinMaxFrom(cmds, k + 1, IF better THEN cmds[k] ELSE best, which)

first_cmd(cmds) == MinMaxFrom(cmds, 2, cmds[1], "min")

last_cmd(cmds) == MinMaxFrom(cmds, 2, cmds[1], "max")

git_count(freq) == freq["git"]

cargo_count(freq) == freq["cargo"]

vim_count(freq) == freq["vim"] + freq["code"]

exploration_count(freq) == freq["ls"] + freq["find"] + freq["grep"]

\* an insight is its kind and the number its text embeds (0 when none)
Insight(kind, n) == [kind |-> kind, n |-> n]

\* a plausible slip: the tiers tested from the lowest threshold up
activity_tier_ascending(total_commands) ==
    IF total_commands > 20 THEN Insight("moderate_activity", 0)
    ELSE IF total_commands > 50 THEN Insight("good_session", 0)
    ELSE IF total_commands > 100 THEN Insight("high_activity", 0)
    ELSE Insight("light_activity", 0)

\* the if/elif/else chain on total_commands
activity_tier(total_commands) ==
    IF total_commands > 100 THEN Insight("high_activity", 0)
    ELSE IF total_commands > 50 THEN Insight("good_session", 0)
    ELSE IF total_commands > 20 THEN Insight("moderate_activity", 0)
    ELSE Insight("light_activity", 0)

\* the insights list, in the order of its appends
insights(freq, total_commands) ==
    (IF git_count(freq) > 5 THEN <<Insight("high_git", 0)>> ELSE <<>>)
    \o (IF cargo_count(freq) > 3 THEN <<Insight("cargo_builds", 0)>> ELSE <<>>)
    \o (IF vim_count(freq) > 0 THEN <<Insight("editing", vim_count(freq))>> ELSE <<>>)
    \o (IF exploration_count(freq) > 10 THEN <<Insight("exploration", 0)>> ELSE <<>>)
    \o <<activity_tier(total_commands)>>

\* a plausible slip: the cap left out
productivity_score_uncapped(total_commands, git, cargo) ==
    total_commands + git * 5 + cargo * 8

\* min(10.0, total_commands / 10 + git_count * 0.5 + cargo_count * 0.8),
\* counted in tenths
productivity_score(total_commands, git, cargo) ==
    LET raw == total_commands + git * 5 + cargo * 8
    IN  IF 100 < raw THEN 100 ELSE raw

\* what a call of analyze_patterns that returns at line 103 leaves behind
NoResult ==
    [produced |-> FALSE, command_freq |-> [n \in CommandNames |-> 0],
     first_cmd |-> None, last_cmd |-> None, insights |-> <<>>,
     total_commands |-> 0, productivity_score |-> 0]

\* lines 109-171 on the frequency table and the length of commands
AnalysisOf(freq, total_commands, first, last) ==
    [produced |-> TRUE, command_freq |-> freq,
     first_cmd |-> first, last_cmd |-> last,
     insights |-> insights(freq, total_commands),
     total_commands |-> total_commands,
     productivity_score |->
        productivity_score(total_commands, git_count(freq), cargo_count(freq))]

\* a plausible slip: the early return on an empty list left out
analyze_counted_no_return(freq, total_commands, first, last) ==
    AnalysisOf(freq, total_commands, first, last)

\* analyze_patterns once the list is counted: `if not commands: return`
\* (lines 101-103), else lines 105-171
analyze_counted(freq, total_commands, first, last) ==
    IF total_commands = 0 THEN NoResult
    ELSE AnalysisOf(freq, total_commands, first, last)

analyze_patterns(cmds) ==
    analyze_counted(Counter(cmds), Len(cmds),
                    IF cmds = <<>> THEN None ELSE first_cmd(cmds),
                    IF cmds = <<>> THEN None ELSE last_cmd(cmds))

(***************************************************************************)
(* The scan loop of analyze_today                                          *)
(***************************************************************************)
\* a plausible slip: the date test left out
process_line_any_date(l, day, cmds) ==
    LET i == timestamp_search(l)
    IN  IF i = 0 THEN cmds
        ELSE LET timestamp == TimestampFields(l, i)
             IN  IF ~FromIsoFormatOk(timestamp) THEN cmds
                 ELSE LET info == extract_command_info(l, timestamp)
                      IN  IF info = None THEN cmds ELSE Append(cmds, info)

\* the body of the for loop (lines 56-75) on one line: commands afterwards
process_line(l, day, cmds) ==
    LET i == timestamp_search(l)
    IN  IF i = 0 THEN cmds                                   \* continue, line 59
        ELSE LET timestamp == TimestampFields(l, i)
             IN  IF ~FromIsoFormatOk(timestamp) THEN cmds    \* ValueError, line 75
                 ELSE IF DateOf(timestamp) # day THEN cmds   \* continue, line 67
                 ELSE LET info == extract_command_info(l, timestamp)
                      IN  IF info = None THEN cmds ELSE Append(cmds, info)

(***************************************************************************)
(* Input: log lines and target days                                        *)
(***************************************************************************)
MaxLines == 3

FormatTwo(n) == <<Digits[(n \div 10) + 1], Digits[(n % 10) + 1]>>

FormatFour(n) == FormatTwo(n \div 100) \o FormatTwo(n % 100)

\* the text YYYY-MM-DDTHH:MM:SS
StampText(y, m, d, h, mi, sec) ==
    FormatFour(y) \o <<"-">> \o FormatTwo(m) \o <<"-">> \o FormatTwo(d) \o <<"T">>
    \o FormatTwo(h) \o <<":">> \o FormatTwo(mi) \o <<":">> \o FormatTwo(sec)

StampA == StampText(2025, 6, 30, 9, 0, 0)

StampB == StampText(2025, 6, 30, 9, 10, 0)

StampNextDay == StampText(2025, 7, 1, 9, 15, 0)

\* shaped like a timestamp, but June has 30 days
StampBad == StampText(2025, 6, 31, 9, 0, 0)

TextGitCommit == <<" ", "g", "i", "t", " ", "c", "o", "m", "m", "i", "t", "\n">>

TextGitPush == <<" ", "g", "i", "t", " ", "p", "u", "s", "h", "\n">>

TextCargoBuild == <<" ", "c", "a", "r", "g", "o", " ", "b", "u", "i", "l", "d", "\n">>

TextLs == <<" ", "l", "s", " ", "-", "l", "a", "\n">>

TextHello == <<" ", "h", "e", "l", "l", "o", "\n">>

ScanLines ==
    { StampA \o TextGitCommit,
      StampA \o TextCargoBuild,
      StampB \o TextLs,
      StampNextDay \o TextGitPush,
      StampBad \o <<" ">> \o StampA \o TextGitCommit,
      <<"1">> \o StampB \o TextCargoBuild,
      StampA \o TextHello,
      Tail(TextGitCommit) }

Files == UNION {[1..n -> ScanLines] : n \in 0..MaxLines}

Todays == { [year |-> 2025, month |-> 6, day |-> 30],
            [year |-> 2025, month |-> 7, day |-> 1] }

Init ==
    /\ pc = "start"
    /\ today \in Todays
    /\ file \in Files
    /\ line_num = 0
    /\ commands = <<>>
    /\ result = NoResult
    /\ line = <<>>
    /\ command_info = None
    /\ command_freq = [n \in CommandNames |-> 0]

\* lines 40-42: os.path.exists fails, the message is printed, return
LogFileMissing ==
    /\ pc = "start"
    /\ pc' = "missing"
    /\ UNCHANGED <<today, file, line_num, commands, result, line, command_info, command_freq>>

\* lines 44-51: the path exists; today and commands are set, the scan starts
StartScan ==
    /\ pc = "start"
    /\ pc' = "scan"
    /\ UNCHANGED <<today, file, line_num, commands, result, line, command_info, command_freq>>

\* lines 52-75: one iteration of the for loop
ScanLine ==
    /\ pc = "scan"
    /\ line_num < Len(file)
    /\ line_num' = line_num + 1
    /\ commands' = process_line(file[line_num + 1], today, commands)
    /\ UNCHANGED <<pc, today, file, result, line, command_info, command_freq>>

\* a plausible slip: the except block without its return, so that the run
\* goes on to line 86
ReadErrorFallsThrough ==
    /\ pc = "scan"
    /\ pc' = "done"
    /\ result' = analyze_patterns(commands)
    /\ UNCHANGED <<today, file, line_num, commands, line, command_info, command_freq>>

\* lines 77-79: open() or a read raises; the error is printed, return
ReadError ==
    /\ pc = "scan"
    /\ pc' = "read_error"
    /\ UNCHANGED <<today, file, line_num, commands, result, line, command_info, command_freq>>

\* lines 81-86: the loop has run out of lines; analyze_patterns(commands)
FinishScan ==
    /\ pc = "scan"
    /\ line_num = Len(file)
    /\ pc' = "done"
    /\ result' = analyze_patterns(commands)
    /\ UNCHANGED <<today, file, line_num, commands, line, command_info, command_freq>>

Next == LogFileMissing \/ StartScan \/ ScanLine \/ ReadError \/ FinishScan

Spec == Init /\ [][Next]_vars


(***************************************************************************)
(* extract_command_info on its own: one line in, one classification out    *)
(***************************************************************************)
MaxTokens == 3

ClassifyTokens ==
    { <<"c", "a", "r", "g", "o", " ", "b", "u", "i", "l", "d">>,
      <<"c", "a", "r", "g", "o">>,
      <<"b", "u", "i", "l", "d">>,
      <<"g", "i", "t", " ", "a", "d", "d">>,
      <<"v", "i", "m">>,
      <<"c", "o", "d", "e">>,
      <<"l", "s">>,
      <<"c", "d">>,
      <<"g", "r", "e", "p">>,
      <<"f", "i", "n", "d">>,
      <<"c", "a", "t">>,
      <<" ">>,
      <<"x">>,
      <<".">> }

RECURSIVE Concat(_)
Concat(parts) == IF parts = <<>> THEN <<>> ELSE Head(parts) \o Concat(Tail(parts))

ClassifyLines ==
    {Concat(parts) : parts \in UNION {[1..n -> ClassifyTokens] : n \in 0..MaxTokens}}

InitClassify ==
    /\ pc = "classify"
    /\ line \in ClassifyLines
    /\ command_info = None
    /\ today = [year |-> 2025, month |-> 6, day |-> 30]
    /\ file = <<>>
    /\ line_num = 0
    /\ commands = <<>>
    /\ result = NoResult
    /\ command_freq = [n \in CommandNames |-> 0]

\* line 70: command_info = self.extract_command_info(line, timestamp)
Classify ==
    /\ pc = "classify"
    /\ command_info' = extract_command_info(line, NoTimestamp)
    /\ pc' = "classified"
    /\ UNCHANGED <<today, file, line_num, commands, result, line, command_freq>>

NextClassify == Classify

SpecClassify == InitClassify /\ [][NextClassify]_vars

(***************************************************************************)
(* analyze_patterns on the frequency table of a long event list            *)
(***************************************************************************)
MaxGit == 6

MaxCargo == 4

MaxLs == 10

MaxFill == 5

Frequencies ==
    { [n \in CommandNames |->
          CASE n = "git"   -> g
            [] n = "cargo" -> c
            [] n = "vim"   -> v
            [] n = "code"  -> e
            [] n = "ls"    -> l
            [] n = "grep"  -> r
            [] n = "find"  -> f
            [] n = "cd"    -> 20 * k
            [] n = "cat"   -> 0] :
        g \in 0..MaxGit, c \in 0..MaxCargo, v \in 0..1, e \in 0..1,
        l \in 0..MaxLs, r \in 0..1, f \in 0..1, k \in 0..MaxFill }

RECURSIVE SumOver(_, _)
SumOver(freq, names) ==
    IF names = {} THEN 0
    ELSE LET n == CHOOSE x \in names : TRUE
         IN  freq[n] + SumOver(freq, names \ {n})

\* len(commands) for a list whose Counter is freq
TotalOf(freq) == SumOver(freq, CommandNames)

InitAnalyze ==
    /\ pc = "counted"
    /\ command_freq \in Frequencies
    /\ result = NoResult
    /\ today = [year |-> 2025, month |-> 6, day |-> 30]
    /\ file = <<>>
    /\ line_num = 0
    /\ commands = <<>>
    /\ line = <<>>
    /\ command_info = None

\* analyze_patterns on a list counted as command_freq (the events themselves,
\* and so first_cmd and last_cmd, are not kept here)
AnalyzeFrequencies ==
    /\ pc = "counted"
    /\ result' = analyze_counted(command_freq, TotalOf(command_freq), None, None)
    /\ pc' = "done"
    /\ UNCHANGED <<today, file, line_num, commands, line, command_info, command_freq>>

NextAnalyze == AnalyzeFrequencies

SpecAnalyze == InitAnalyze /\ [][NextAnalyze]_vars


(***************************************************************************)
(* Properties of the classifier (SpecClassify)                             *)
(***************************************************************************)
\* the categories in the order the specification declares them
CategoryOrder ==
    <<"cargo", "git", "editor", "list", "navigate", "search-text",
      "search-files", "read-file">>

\* the category an event's command name stands for
CategoryOf(cmd_name) ==
    CASE cmd_name \in {"vim", "code"} -> "editor"
      [] cmd_name = "ls"   -> "list"
      [] cmd_name = "cd"   -> "navigate"
      [] cmd_name = "grep" -> "search-text"
      [] cmd_name = "find" -> "search-files"
      [] cmd_name = "cat"  -> "read-file"
      [] OTHER             -> cmd_name

\* the line satisfies the signature of the category
Satisfies(s, category) ==
    \E n \in {"cargo", "git", "vim", "code", "ls", "cd", "grep", "find", "cat"} :
        CategoryOf(n) = category /\ PatternSearch(n, s)

\* the positions in CategoryOrder of the signatures the line satisfies
Satisfied(s) == {k \in 1..Len(CategoryOrder) : Satisfies(s, CategoryOrder[k])}

\* C1: the category returned is the earliest satisfied one in the declared
\* order cargo, git, editor, list, navigate, search-text, search-files,
\* read-file, and a line that satisfies no signature yields no event
C1_FirstMatchWins ==
    pc = "classified" =>
        IF Satisfied(line) = {}
        THEN command_info = None
        ELSE /\ command_info # None
             /\ \E k \in Satisfied(line) :
                   /\ CategoryOf(command_info.command) = CategoryOrder[k]
                   /\ \A j \in Satisfied(line) : k <= j

\* a line satisfying both the cargo and the navigate signature has been
\* classified cargo
C1_Witness ==
    /\ pc = "classified"
    /\ Satisfies(line, "cargo")
    /\ Satisfies(line, "navigate")
    /\ command_info.command = "cargo"

\* kw occurs in s as a whole word: no word character on either side
HasWholeWord(s, kw) ==
    \E i \in 1..Len(s) :
        /\ LitAt(s, i, kw)
        /\ (i = 1 \/ ~IsWord(s[i - 1]))
        /\ (i + Len(kw) > Len(s) \/ ~IsWord(s[i + Len(kw)]))

HasEditorWord(s) ==
    \/ HasWholeWord(s, <<"v", "i", "m">>)
    \/ HasWholeWord(s, <<"n", "v", "i", "m">>)
    \/ HasWholeWord(s, <<"c", "o", "d", "e">>)

\* C4: a line is classified as an editor event only if vim, nvim or code
\* occurs in it as a whole word, and a line holding one of them as a whole
\* word that satisfies no earlier signature is an editor event
C4_EditorWholeWord ==
    pc = "classified" =>
        /\ (command_info.command \in {"vim", "code"} => HasEditorWord(line))
        /\ (HasEditorWord(line) /\ ~pattern_cargo(line) /\ ~pattern_git(line)
               => command_info.command \in {"vim", "code"})

\* C5: a line is classified list only if ls occurs in it as a whole word,
\* and a line holding the whole word ls that matches no earlier signature
\* is classified list
C5_ListWholeWord ==
    pc = "classified" =>
        /\ (command_info.command = "ls" => HasWholeWord(line, <<"l", "s">>))
        /\ ((/\ HasWholeWord(line, <<"l", "s">>)
             /\ ~pattern_cargo(line) /\ ~pattern_git(line)
             /\ ~pattern_vim(line) /\ ~pattern_code(line))
               => command_info.command = "ls")

\* ls occurs only inside a longer token and the line is not an event
C5_Witness ==
    /\ pc = "classified"
    /\ \E i \in 1..Len(line) : LitAt(line, i, <<"l", "s">>)
    /\ ~HasWholeWord(line, <<"l", "s">>)
    /\ command_info = None


(***************************************************************************)
(* Properties of the scan (Spec)                                           *)
(***************************************************************************)
HasTimestampShape(s) == \E i \in 1..Len(s) : TimestampShapeAt(s, i)

\* C2: every collected event carries the target date, and the line of every
\* collected event holds a timestamp-shaped substring
C2_RetainedOnTargetDate ==
    \A k \in 1..Len(commands) :
        /\ DateOf(commands[k].timestamp) = today
        /\ HasTimestampShape(commands[k].line)

\* the scan has read a classifiable line dated one day after the target day
\* and a line without a timestamp, and has collected an event
C2_Witness ==
    /\ pc = "done"
    /\ today = [year |-> 2025, month |-> 6, day |-> 30]
    /\ commands # <<>>
    /\ \E j \in 1..Len(file) : file[j] = StampNextDay \o TextGitPush
    /\ \E j \in 1..Len(file) : ~HasTimestampShape(file[j])

LightActivityOnly == <<Insight("light_activity", 0)>>

\* C3 as stated: on an empty event list the analysis still yields a full
\* result with the single insight "light activity", score 0 and count 0
C3_EmptyFullResult ==
    pc = "done" /\ commands = <<>> =>
        /\ result.produced
        /\ result.total_commands = 0
        /\ result.productivity_score = 0
        /\ result.insights = LightActivityOnly
        /\ result.first_cmd = None /\ result.last_cmd = None

\* C3 as the code has it: on an empty event list analyze_patterns returns
\* at once; no frequency table, insight, first/last event or score is made
C3_EmptyNoResult ==
    pc = "done" /\ commands = <<>> =>
        /\ ~result.produced
        /\ result.insights = <<>>
        /\ result = NoResult

\* a scan over a non-empty file that collected nothing has been analysed
C3_Witness ==
    /\ pc = "done"
    /\ commands = <<>>
    /\ Len(file) > 0
    /\ ~result.produced

\* C8: a missing or failing source ends the run with no analysis, whatever
\* was collected before, and the analysis is entered only from the scan
\* loop once it has consumed every line
C8_NoAnalysisAfterFailure ==
    [][ /\ (pc \in {"missing", "read_error"} => pc' = pc /\ result' = result)
        /\ (pc' \in {"missing", "read_error"} => result' = NoResult)
        /\ (pc' = "done" /\ pc # "done" => pc = "scan" /\ line_num = Len(file))
        /\ (result' # result => pc = "scan" /\ line_num = Len(file)) ]_vars

\* a read failed after events had been collected
C8_Witness ==
    /\ pc = "read_error"
    /\ commands # <<>>
    /\ line_num < Len(file)
    /\ result = NoResult

\* the positions of cmds holding the smallest / the greatest timestamp
MinPositions(cmds) ==
    {k \in 1..Len(cmds) :
        \A j \in 1..Len(cmds) : ~TimestampLess(cmds[j].timestamp, cmds[k].timestamp)}

MaxPositions(cmds) ==
    {k \in 1..Len(cmds) :
        \A j \in 1..Len(cmds) : ~TimestampLess(cmds[k].timestamp, cmds[j].timestamp)}

Earliest(positions) == CHOOSE k \in positions : \A j \in positions : k <= j

Latest(positions) == CHOOSE k \in positions : \A j \in positions : k >= j

\* C9 as stated: first_cmd is the earliest of the events with the smallest
\* timestamp, last_cmd the latest of the events with the greatest one
C9_LastTieLatest ==
    pc = "done" /\ commands # <<>> =>
        /\ result.first_cmd = commands[Earliest(MinPositions(commands))]
        /\ result.last_cmd = commands[Latest(MaxPositions(commands))]

\* C9 as the code has it: first_cmd is the earliest of the events with the
\* smallest timestamp, last_cmd the earliest of those with the greatest one
C9_TiesEarliest ==
    pc = "done" /\ commands # <<>> =>
        /\ result.first_cmd = commands[Earliest(MinPositions(commands))]
        /\ result.last_cmd = commands[Earliest(MaxPositions(commands))]

\* two different events share the greatest timestamp
C9_Witness ==
    /\ pc = "done"
    /\ commands # <<>>
    /\ \E i, j \in MaxPositions(commands) : i < j /\ commands[i] # commands[j]
    /\ \E i, j \in MinPositions(commands) : i < j /\ commands[i] # commands[j]
    /\ result.last_cmd = commands[Earliest(MaxPositions(commands))]

\* the line yields an event: its leftmost timestamp-shaped substring is a
\* real date and time on the target day and some signature matches
Collectable(s, day) ==
    \E i \in 1..Len(s) :
        /\ TimestampShapeAt(s, i)
        /\ \A j \in 1..Len(s) : TimestampShapeAt(s, j) => i <= j
        /\ FromIsoFormatOk(TimestampFields(s, i))
        /\ DateOf(TimestampFields(s, i)) = day
        /\ \E n \in CommandNames : PatternSearch(n, s)

\* the stripped text of the collectable lines among the first n, in order
RECURSIVE CollectedText(_, _, _)
CollectedText(f, n, day) ==
    IF n = 0 THEN <<>>
    ELSE IF Collectable(f[n], day)
         THEN Append(CollectedText(f, n - 1, day), Strip(f[n]))
         ELSE CollectedText(f, n - 1, day)

\* C10: the events collected so far are exactly the lines read so far whose
\* leftmost timestamp-shaped substring is a valid target-day timestamp and
\* that classify, in file order; a line whose leftmost one is invalid adds
\* nothing and does not stop the scan
C10_LeftmostOnlyAndContinue ==
    /\ pc \in {"scan", "done", "read_error"} =>
          [k \in 1..Len(commands) |-> commands[k].line]
             = CollectedText(file, line_num, today)
    /\ pc = "done" => line_num = Len(file)

\* a line whose leftmost timestamp is invalid and whose second one is a
\* valid target-day timestamp was skipped, and a later line was collected
C10_Witness ==
    /\ pc = "done"
    /\ Len(file) = 2
    /\ file[1] = StampBad \o <<" ">> \o StampA \o TextGitCommit
    /\ today = [year |-> 2025, month |-> 6, day |-> 30]
    /\ Len(commands) = 1
    /\ commands[1].line = Strip(file[2])


(***************************************************************************)
(* Properties of the analysis (SpecAnalyze)                                *)
(***************************************************************************)
RawTenths == TotalOf(command_freq) + 5 * command_freq["git"] + 8 * command_freq["cargo"]

TierKinds == {"high_activity", "good_session", "moderate_activity", "light_activity"}

RuleKinds == <<"high_git", "cargo_builds", "editing", "exploration">>

\* the condition of each rule, on the counts of the categories
RuleFires(kind) ==
    CASE kind = "high_git"     -> command_freq["git"] > 5
      [] kind = "cargo_builds" -> command_freq["cargo"] > 3
      [] kind = "editing"      -> command_freq["vim"] + command_freq["code"] > 0
      [] kind = "exploration"  ->
            command_freq["ls"] + command_freq["find"] + command_freq["grep"] > 10

\* the one tier of a total: the bands are disjoint
TierOf(total) ==
    CHOOSE t \in TierKinds :
        /\ t = "high_activity" <=> total > 100
        /\ t = "good_session" <=> (total > 50 /\ total <= 100)
        /\ t = "moderate_activity" <=> (total > 20 /\ total <= 50)
        /\ t = "light_activity" <=> total <= 20

\* the kinds of the insights list, in order
InsightKinds == [k \in 1..Len(result.insights) |-> result.insights[k].kind]

\* the insights are the rules that fire, in the order git, cargo, editing,
\* exploration, then the one tier of the total: 1 to 5 entries
InsightsInOrder ==
    /\ InsightKinds = SelectSeq(RuleKinds, RuleFires) \o <<TierOf(TotalOf(command_freq))>>
    /\ Len(result.insights) >= 1 /\ Len(result.insights) <= 5
    /\ Cardinality({k \in 1..Len(result.insights) : result.insights[k].kind \in TierKinds}) = 1
    /\ result.insights[Len(result.insights)].kind \in TierKinds
    /\ \A k \in 1..Len(result.insights) :
          result.insights[k].n =
             IF result.insights[k].kind = "editing"
             THEN command_freq["vim"] + command_freq["code"] ELSE 0

=============================================================================
